---- MODULE Spec2Model ----
(***************************************************************************)
(* Model of src/src/scrape-scshow-cards.js: the card scraper that opens    *)
(* the selection dialog, selects each candidate in turn, harvests the      *)
(* "first member" area into key/value records and writes them as CSV.      *)
(*                                                                         *)
(* Strings are modelled as sequences of chunks.  A chunk is either one of  *)
(* the characters the code treats specially (comma, double quote, line     *)
(* feed, carriage return, space, no-break space, half- and full-width      *)
(* colon) or a piece of ordinary text that contains none of them.          *)
(* Japanese field names are written in ASCII:                              *)
(*   cardName = カード名, member = メンバー, series = シリーズ,            *)
(*   costAP = 消費AP, type = タイプ, attribute = 属性, skill = スキル,     *)
(*   skillEffect = スキル効果, duration = 効果時間, effectValue = 効果値,  *)
(*   condition = 条件, rarity = レアリティ, level = レベル, awakening = 覚醒 *)
(***************************************************************************)
EXTENDS Integers, Sequences, FiniteSets, TLC

VARIABLES
  pc,            \* position of main() / the then-catch chain
  MAX_CARDS,     \* configuration: maximum number of candidates
  ONLY_FIRST_N,  \* configuration: <<>> when unset (null), <<n>> when set
  selBtns,       \* number of "選択" buttons the surface showed when last queried
  modalVisible,  \* whether the selection dialog is currently visible
  probeLog,      \* results of the enumerateCardCount calls made so far
  count,         \* main's local `count`
  limit,         \* main's local `limit`
  i,             \* main's loop variable
  rows,          \* main's local `rows`
  clicked,       \* positions of the candidates clicked so far, in order
  err,           \* the exception travelling out of main, "none" if none
  file,          \* OUT_FILE on disk: <<>> when absent, <<text>> when present
  fallbackOk,    \* whether the catch handler's write of the fallback succeeded
  exitCode,      \* -1 while running, then the argument of process.exit
  openedVisible, \* whether the dialog was visible when openCardDialog was last called
  events,        \* what was done since openCardDialog was last called, in order
  enumSel,       \* number of "選択" buttons seen by the last enumerateCardCount
  writeLog,      \* the writes of OUT_FILE that completed, in order
  csvIn,         \* writeCsv harness: the rows handed to writeCsv
  csvOut,        \* writeCsv harness: <<>> before the call, <<text>> after
  fldIn,         \* toCsvField harness: <<>> or <<the string handed to toCsvField>>
  fldOut,        \* toCsvField harness: <<>> before the call, <<field>> after
  epc,           \* extraction harness: position in extractKeyValuesFromArea
  calls,         \* extraction harness: the set(k, v) calls still to be issued
  kvs,           \* extraction harness: the object `kv`
  lastCall       \* extraction harness: <<>> or <<the call just issued>>

vars == <<pc, MAX_CARDS, ONLY_FIRST_N, selBtns, modalVisible, probeLog,
          count, limit, i, rows, clicked, err, file, fallbackOk, exitCode,
          openedVisible, events, enumSel, writeLog,
          csvIn, csvOut, fldIn, fldOut, epc, calls, kvs, lastCall>>

runVars == <<pc, MAX_CARDS, ONLY_FIRST_N, selBtns, modalVisible, probeLog,
             count, limit, i, rows, clicked, err, file, fallbackOk, exitCode,
             openedVisible, events, enumSel, writeLog>>
csvVars == <<csvIn, csvOut, fldIn, fldOut>>
setVars == <<epc, calls, kvs, lastCall>>

-----------------------------------------------------------------------------
(* Bounds of the model *)

\* largest number of selection buttons a surface shows
MaxButtons == 3
\* largest value of MAX_CARDS and ONLY_FIRST_N tried
MaxLimit == 3
\* largest number of records handed to writeCsv on its own
MaxRows == 2
\* largest number of fields of a record handed to writeCsv on its own
MaxFields == 2
\* longest string handed to toCsvField on its own
MaxStrLen == 3
\* largest number of elements (dt, tr, label, strong) in a harvested area
MaxEntries == 2

-----------------------------------------------------------------------------
(* Characters *)

COMMA == ","
QUOTE == "\""
LF == "LF"         \* line feed, \n
CR == "CR"         \* carriage return, \r
SP == " "
NBSP == "NBSP"     \* U+00A0
COLON == ":"
FWCOLON == "FWCOLON"   \* full-width colon, U+FF1A

\* /\s/ of JavaScript, as far as the chunks go
IsSpace(c) == c \in {SP, NBSP, LF, CR}
IsColon(c) == c \in {COLON, FWCOLON}

Min(a, b) == IF a < b THEN a ELSE b

RECURSIVE Join(_, _)
\* Array.prototype.join
Join(parts, sep) ==
  IF Len(parts) = 0 THEN <<>>
  ELSE IF Len(parts) = 1 THEN parts[1]
  ELSE parts[1] \o sep \o Join(Tail(parts), sep)

-----------------------------------------------------------------------------
(* norm, line 41 *)

RECURSIVE ReplaceNbsp(_)
\* .replace(/\u00A0/g, ' ')
ReplaceNbsp(s) ==
  IF s = <<>> THEN <<>>
  ELSE <<IF Head(s) = NBSP THEN SP ELSE Head(s)>> \o ReplaceNbsp(Tail(s))

RECURSIVE CollapseSpace(_)
\* .replace(/\s+/g, ' ')
CollapseSpace(s) ==
  IF s = <<>> THEN <<>>
  ELSE IF IsSpace(Head(s))
       THEN IF Len(s) > 1 /\ IsSpace(s[2])
            THEN CollapseSpace(Tail(s))
            ELSE <<SP>> \o CollapseSpace(Tail(s))
       ELSE <<Head(s)>> \o CollapseSpace(Tail(s))

RECURSIVE TrimEnd(_)
TrimEnd(s) ==
  IF s # <<>> /\ IsSpace(s[Len(s)]) THEN TrimEnd(SubSeq(s, 1, Len(s) - 1)) ELSE s

RECURSIVE TrimStart(_)
TrimStart(s) ==
  IF s # <<>> /\ IsSpace(Head(s)) THEN TrimStart(Tail(s)) ELSE s

\* .trim()
Trim(s) == TrimEnd(TrimStart(s))

\* norm without the final trim
normNoTrim(s) == CollapseSpace(ReplaceNbsp(s))

\* line 41 (and its copy in the page, line 120)
norm(s) == Trim(CollapseSpace(ReplaceNbsp(s)))

-----------------------------------------------------------------------------
(* Values of a record: the index is a number, every other field a string;  *)
(* r[h] of a field the record lacks is undefined.                          *)

NumV(n) == [t |-> "number", n |-> n]
StrV(s) == [t |-> "string", s |-> s]
Undefined == [t |-> "undefined"]

\* String(v) for a number or a string
String(v) == IF v.t = "number" THEN <<ToString(v.n)>> ELSE v.s

RECURSIVE DoubleQuotes(_)
\* s.replace(/"/g, '""')
DoubleQuotes(s) ==
  IF s = <<>> THEN <<>>
  ELSE (IF Head(s) = QUOTE THEN <<QUOTE, QUOTE>> ELSE <<Head(s)>>)
       \o DoubleQuotes(Tail(s))

\* /[,"\n]/.test(s)
NeedsQuoting(s) == \E n \in 1..Len(s) : s[n] \in {COMMA, QUOTE, LF}

toCsvField(v) ==
  IF v.t = "undefined" THEN <<>>
  ELSE LET s == String(v)
       IN IF NeedsQuoting(s) THEN <<QUOTE>> \o DoubleQuotes(s) \o <<QUOTE>> ELSE s

-----------------------------------------------------------------------------
(* writeCsv, lines 49-81 *)

K(name) == <<name>>

prefer ==
  << K("index"), K("cardName"), K("member"), K("series"), K("costAP"),
     K("type"), K("attribute"), K("skill"), K("skillEffect"), K("duration"),
     K("effectValue"), K("condition"), K("rarity"), K("level"), K("awakening") >>

\* prefer.includes(k)
PreferIncludes(k) == \E n \in 1..Len(prefer) : prefer[n] = k

\* The collation of localeCompare(.., 'ja') over the chunks of the model:
\* white space and punctuation sort before letters.
Collation ==
  << SP, NBSP, LF, CR, QUOTE, COMMA, COLON, FWCOLON,
     "1", "2", "3", "4", "5",
     "A", "awakening", "attribute", "B", "C", "cardName", "condition", "costAP",
     "duration", "effectValue", "index", "level", "member", "rarity",
     "series", "skill", "skillEffect", "type", "w", "x", "y", "z",
     "[", "]", "|" >>

ChunkRank(c) == CHOOSE n \in 1..Len(Collation) : Collation[n] = c

RECURSIVE localeCompare(_, _)
\* a.localeCompare(b, 'ja'): negative, zero or positive
localeCompare(a, b) ==
  IF a = <<>> /\ b = <<>> THEN 0
  ELSE IF a = <<>> THEN -1
  ELSE IF b = <<>> THEN 1
  ELSE IF Head(a) = Head(b) THEN localeCompare(Tail(a), Tail(b))
  ELSE ChunkRank(Head(a)) - ChunkRank(Head(b))

RECURSIVE SortKeys(_)
\* [...S].sort((a, b) => a.localeCompare(b, 'ja'))
SortKeys(S) ==
  IF S = {} THEN <<>>
  ELSE LET m == CHOOSE a \in S : \A b \in S : localeCompare(a, b) <= 0
       IN <<m>> \o SortKeys(S \ {m})

\* lines 68-69: the union of the records' keys
KeySet(rs) == UNION {DOMAIN rs[n] : n \in 1..Len(rs)}

\* line 71
Rest(rs) == SortKeys({k \in KeySet(rs) : ~PreferIncludes(k)})

\* Headers without the filter of the preferred list to the keys present
HeadersAllPreferred(rs) == prefer \o Rest(rs)

\* line 72
Headers(rs) == SelectSeq(prefer, LAMBDA k : k \in KeySet(rs)) \o Rest(rs)

\* Get with a missing field turned into the text "undefined"
GetRendersUndefined(r, h) == IF h \in DOMAIN r THEN r[h] ELSE StrV(<<"undefined">>)

\* r[h]
Get(r, h) == IF h \in DOMAIN r THEN r[h] ELSE Undefined

\* line 76: the fields of the header line
HeaderFields(headers) == [n \in 1..Len(headers) |-> toCsvField(StrV(headers[n]))]

\* line 78: the fields of the line of record r
RowFields(headers, r) == [n \in 1..Len(headers) |-> toCsvField(Get(r, headers[n]))]

\* lines 75-79: the array `lines`
Lines(rs) ==
  LET headers == Headers(rs)
  IN <<Join(HeaderFields(headers), <<COMMA>>)>>
     \o [n \in 1..Len(rs) |-> Join(RowFields(headers, rs[n]), <<COMMA>>)]

\* line 80: the text handed to fs.writeFile
writeCsv(rs) == Join(Lines(rs), <<LF>>)

\* line 332 and the template of line 334
FallbackHeaders == << K("index"), K("cardName"), K("member"), K("series"), K("costAP") >>
FallbackText == Join(FallbackHeaders, <<COMMA>>) \o <<LF>>

-----------------------------------------------------------------------------
(* extractKeyValuesFromArea, lines 118-215.  The object `kv` is a sequence *)
(* of [k, v] pairs in insertion order.  A region is what the four          *)
(* strategies find under the area's root:                                  *)
(*   dl     - per <dt>: its text and the text of the <dd> that follows it  *)
(*            (<<>> when the next sibling is missing or is no <dd>)        *)
(*   table  - per <tr>: the texts of its cells                             *)
(*   label  - per <label>: its text and the value of the field it resolves *)
(*            to (<<>> when it resolves to none)                           *)
(*   strong - per <strong>/<b>: its text and the text of its next siblings *)

Has(kv, key) == \E n \in 1..Len(kv) : kv[n].k = key

Lookup(kv, key) == kv[CHOOSE n \in 1..Len(kv) : kv[n].k = key].v

\* kv[key] = val
Put(kv, key, val) ==
  IF Has(kv, key)
  THEN [n \in 1..Len(kv) |-> IF kv[n].k = key THEN [k |-> key, v |-> val] ELSE kv[n]]
  ELSE Append(kv, [k |-> key, v |-> val])

\* delete kv[key]
Delete(kv, key) == SelectSeq(kv, LAMBDA p : p.k # key)

\* set with last-write-wins: the test of line 128 dropped
setOverwrites(kv, k, v) ==
  LET key == norm(k)
      val == norm(v)
  IN IF key = <<>> THEN kv ELSE Put(kv, key, val)

\* lines 123-129
set(kv, k, v) ==
  LET key == norm(k)
      val == norm(v)
  IN IF key = <<>> THEN kv
     ELSE IF ~Has(kv, key) \/ Lookup(kv, key) = <<>> THEN Put(kv, key, val)
     ELSE kv

\* A call set(k, v) with its arguments as the strategy passes them
Call(k, v) == [k |-> k, v |-> v]

RECURSIVE Strategy1(_)
\* lines 132-140: the calls of set the <dl> strategy makes
Strategy1(dl) ==
  IF dl = <<>> THEN <<>>
  ELSE (IF Head(dl).dd = <<>> THEN <<>>
        ELSE <<Call(Head(dl).dt, Head(dl).dd[1])>>)
       \o Strategy1(Tail(dl))

RECURSIVE Strategy2(_)
\* lines 143-152: the calls of set the <table> strategy makes
Strategy2(table) ==
  IF table = <<>> THEN <<>>
  ELSE (IF Len(Head(table)) >= 2
        THEN <<Call(Head(table)[1], Join(Tail(Head(table)), <<SP, "|", SP>>))>>
        ELSE <<>>)
       \o Strategy2(Tail(table))

RECURSIVE Strategy3(_)
\* lines 155-184: the calls of set the <label> strategy makes
Strategy3(label) ==
  IF label = <<>> THEN <<>>
  ELSE (IF Head(label).key = <<>> \/ Head(label).field = <<>> THEN <<>>
        ELSE <<Call(Head(label).key, Head(label).field[1])>>)
       \o Strategy3(Tail(label))

\* /[:：]\s*$/.test(txt)
EndsWithColon(txt) == LET t == TrimEnd(txt) IN t # <<>> /\ IsColon(t[Len(t)])

\* txt.replace(/\s*[:：]\s*$/, '')
StripColon(txt) ==
  IF EndsWithColon(txt)
  THEN LET t == TrimEnd(txt) IN TrimEnd(SubSeq(t, 1, Len(t) - 1))
  ELSE txt

RECURSIVE Strategy4(_)
\* lines 187-202: the calls of set the <strong>/<b> strategy makes
Strategy4(strong) ==
  IF strong = <<>> THEN <<>>
  ELSE LET txt == norm(Head(strong).text)
       IN (IF txt # <<>> /\ EndsWithColon(txt)
           THEN <<Call(StripColon(txt), Head(strong).val)>>
           ELSE <<>>)
          \o Strategy4(Tail(strong))

\* the calls of set in the order the four strategies issue them
SetCalls(region) ==
  Strategy1(region.dl) \o Strategy2(region.table)
  \o Strategy3(region.label) \o Strategy4(region.strong)

RECURSIVE SetAll(_, _)
SetAll(kv, cs) ==
  IF cs = <<>> THEN kv ELSE SetAll(set(kv, Head(cs).k, Head(cs).v), Tail(cs))

RECURSIVE NormalizeKeys(_, _)
\* lines 205-211; keys is the snapshot Object.keys(kv) taken before the loop
NormalizeKeys(kv, keys) ==
  IF keys = <<>> THEN kv
  ELSE LET k == Head(keys)
           nk == StripColon(k)
       IN NormalizeKeys(IF nk # k
                        THEN Delete(IF ~Has(kv, nk) THEN Put(kv, nk, Lookup(kv, k)) ELSE kv, k)
                        ELSE kv,
                        Tail(keys))

Keys(kv) == [n \in 1..Len(kv) |-> kv[n].k]

\* lines 121-202: kv after the four strategies, before the key normalisation
Harvest(region) == SetAll(<<>>, SetCalls(region))

extractKeyValuesFromArea(region) ==
  LET kv == Harvest(region) IN NormalizeKeys(kv, Keys(kv))

\* kv[key] || ''
GetOrEmpty(kv, key) == IF Has(kv, key) THEN Lookup(kv, key) ELSE <<>>

\* lines 309-311
CardName(kv) ==
  LET series == GetOrEmpty(kv, K("series"))
      member == GetOrEmpty(kv, K("member"))
      parts == (IF series # <<>> THEN << <<"[">> \o series \o <<"]">> >> ELSE <<>>)
               \o (IF member # <<>> THEN <<member>> ELSE <<>>)
  IN Join(parts, <<SP>>)

\* line 312: { index: i + 1, 'カード名': cardName, ...kv }
Rec(idx, kv) ==
  [k \in {K("index"), K("cardName")} \cup {kv[n].k : n \in 1..Len(kv)} |->
     IF Has(kv, k) THEN StrV(Lookup(kv, k))
     ELSE IF k = K("index") THEN NumV(idx + 1)
     ELSE StrV(CardName(kv))]

EmptyRegion == [dl |-> <<>>, table |-> <<>>, label |-> <<>>, strong |-> <<>>]

\* The contents of the area after a selection that the run is tried on
Regions ==
  { EmptyRegion,
    [EmptyRegion EXCEPT !.dl = << [dt |-> K("member"), dd |-> <<K("x")>>],
                                  [dt |-> K("series"), dd |-> <<K("y")>>] >>],
    [EmptyRegion EXCEPT !.table = << <<K("member"), <<"x", COMMA, "y">>>>,
                                     <<K("A"), K("z"), K("w")>> >>],
    [EmptyRegion EXCEPT !.label = << [key |-> K("index"), field |-> <<K("z")>>],
                                     [key |-> K("cardName"), field |-> <<K("v")>>] >>,
                        !.strong = << [text |-> <<"B", FWCOLON>>, val |-> <<SP, "w">>] >>] }

-----------------------------------------------------------------------------
(* The run: main(), lines 273-324, and the chain of lines 327-337 *)

CsvIdle == csvIn = <<>> /\ csvOut = <<>>
FieldIdle == fldIn = <<>> /\ fldOut = <<>>
SetIdle == epc = "idle" /\ calls = <<>> /\ kvs = <<>> /\ lastCall = <<>>

\* the run's variables while only a function is exercised
RunIdle ==
  /\ pc = "idle"
  /\ MAX_CARDS = 0 /\ ONLY_FIRST_N = <<>>
  /\ selBtns = 0
  /\ modalVisible = FALSE
  /\ probeLog = <<>>
  /\ count = 0 /\ limit = 0 /\ i = 0
  /\ rows = <<>>
  /\ clicked = <<>>
  /\ err = "none"
  /\ file = <<>>
  /\ fallbackOk = FALSE
  /\ exitCode = -1
  /\ openedVisible = FALSE
  /\ events = <<>>
  /\ enumSel = 0
  /\ writeLog = <<>>

Init ==
  /\ pc = "launch"
  /\ MAX_CARDS \in 0..MaxLimit
  /\ ONLY_FIRST_N \in {<<>>} \cup {<<n>> : n \in 0..MaxLimit}
  /\ selBtns = 0
  /\ modalVisible = FALSE
  /\ probeLog = <<>>
  /\ count = 0 /\ limit = 0 /\ i = 0
  /\ rows = <<>>
  /\ clicked = <<>>
  /\ err = "none"
  /\ file = <<>>
  /\ fallbackOk = FALSE
  /\ exitCode = -1
  /\ openedVisible = FALSE
  /\ events = <<>>
  /\ enumSel = 0
  /\ writeLog = <<>>
  /\ CsvIdle /\ FieldIdle /\ SetIdle

\* the exception e leaves the try block of main: the finally block is next
Throw(e) == err' = e /\ pc' = "finally"

\* lines 274-278, before the try block: a failure rejects main at once
Launch ==
  /\ pc = "launch"
  /\ \/ pc' = "goto" /\ err' = err
     \/ pc' = "catch" /\ err' = "LaunchFailure"
  /\ UNCHANGED <<MAX_CARDS, ONLY_FIRST_N, selBtns, modalVisible, probeLog,
                 count, limit, i, rows, clicked, file, fallbackOk, exitCode>>
  /\ UNCHANGED <<openedVisible, events, enumSel, writeLog>>
  /\ UNCHANGED <<csvVars, setVars>>

\* lines 282-284
Goto ==
  /\ pc = "goto"
  /\ \/ pc' = "resolve" /\ err' = err
     \/ Throw("NavigationFailure")
  /\ UNCHANGED <<MAX_CARDS, ONLY_FIRST_N, selBtns, modalVisible, probeLog,
                 count, limit, i, rows, clicked, file, fallbackOk, exitCode>>
  /\ UNCHANGED <<openedVisible, events, enumSel, writeLog>>
  /\ UNCHANGED <<csvVars, setVars>>

\* lines 287-288 (resolveFirstArea, lines 88-115)
ResolveFirstArea ==
  /\ pc = "resolve"
  /\ \/ pc' = "open" /\ err' = err
     \/ Throw("AnchorNotFound")
  /\ UNCHANGED <<MAX_CARDS, ONLY_FIRST_N, selBtns, modalVisible, probeLog,
                 count, limit, i, rows, clicked, file, fallbackOk, exitCode>>
  /\ UNCHANGED <<openedVisible, events, enumSel, writeLog>>
  /\ UNCHANGED <<csvVars, setVars>>

\* openCardDialog, lines 218-229: the anchor is clicked whether or not the
\* dialog is visible and the click's failure is swallowed; the wait for the
\* dialog either sees it visible or times out and throws
openCardDialog(next) ==
  /\ openedVisible' = modalVisible
  /\ events' = <<"anchorClick">>
  /\ \/ modalVisible' = TRUE /\ pc' = next /\ err' = err
     \/ modalVisible' = FALSE /\ Throw("SurfaceTimeout")

\* line 291
OpenFirst ==
  /\ pc = "open"
  /\ openCardDialog("probe1")
  /\ UNCHANGED <<MAX_CARDS, ONLY_FIRST_N, selBtns, probeLog,
                 count, limit, i, rows, clicked, file, fallbackOk, exitCode>>
  /\ UNCHANGED <<enumSel, writeLog>>
  /\ UNCHANGED <<csvVars, setVars>>

\* enumerateCardCount, lines 249-259, on a surface with sel "選択" buttons
\* and alt "決定"/"選ぶ" buttons
enumerateCardCount(sel, alt) == IF sel = 0 THEN alt ELSE sel

\* Probe1 without the retry on a count of zero
Probe1NoRetry ==
  /\ pc = "probe1"
  /\ \E sel \in 0..MaxButtons, alt \in 0..MaxButtons :
       /\ selBtns' = sel /\ enumSel' = sel
       /\ count' = enumerateCardCount(sel, alt)
       /\ probeLog' = Append(probeLog, enumerateCardCount(sel, alt))
  /\ pc' = "close"
  /\ UNCHANGED <<MAX_CARDS, ONLY_FIRST_N, modalVisible, limit, i, rows, clicked,
                 err, file, fallbackOk, exitCode>>
  /\ UNCHANGED <<openedVisible, events, writeLog>>
  /\ UNCHANGED <<csvVars, setVars>>

\* line 292
Probe1 ==
  /\ pc = "probe1"
  /\ \E sel \in 0..MaxButtons, alt \in 0..MaxButtons :
       /\ selBtns' = sel /\ enumSel' = sel
       /\ count' = enumerateCardCount(sel, alt)
       /\ probeLog' = Append(probeLog, enumerateCardCount(sel, alt))
       /\ pc' = IF enumerateCardCount(sel, alt) = 0 THEN "probe2" ELSE "close"
  /\ UNCHANGED <<MAX_CARDS, ONLY_FIRST_N, modalVisible, limit, i, rows, clicked,
                 err, file, fallbackOk, exitCode>>
  /\ UNCHANGED <<openedVisible, events, writeLog>>
  /\ UNCHANGED <<csvVars, setVars>>

\* lines 294-297: after the grace period of 500 ms
Probe2 ==
  /\ pc = "probe2"
  /\ \E sel \in 0..MaxButtons, alt \in 0..MaxButtons :
       /\ selBtns' = sel /\ enumSel' = sel
       /\ count' = enumerateCardCount(sel, alt)
       /\ probeLog' = Append(probeLog, enumerateCardCount(sel, alt))
  /\ pc' = "close"
  /\ UNCHANGED <<MAX_CARDS, ONLY_FIRST_N, modalVisible, limit, i, rows, clicked,
                 err, file, fallbackOk, exitCode>>
  /\ UNCHANGED <<openedVisible, events, writeLog>>
  /\ UNCHANGED <<csvVars, setVars>>

\* ONLY_FIRST_N ?? MAX_CARDS
ConfiguredLimit == IF ONLY_FIRST_N = <<>> THEN MAX_CARDS ELSE ONLY_FIRST_N[1]

\* the loop test of line 302
LoopTest(idx, lim) == IF idx < lim THEN "loopOpen" ELSE "writeCsv"

\* lines 299-302: closeDialogIfAny (lines 231-247) swallows every failure and
\* may leave the dialog open; then the limit and the first loop test
CloseAndLimit ==
  /\ pc = "close"
  /\ modalVisible' \in {FALSE, modalVisible}
  /\ limit' = Min(count, ConfiguredLimit)
  /\ i' = 0
  /\ pc' = LoopTest(0, Min(count, ConfiguredLimit))
  /\ UNCHANGED <<MAX_CARDS, ONLY_FIRST_N, selBtns, probeLog, count, rows,
                 clicked, err, file, fallbackOk, exitCode>>
  /\ UNCHANGED <<openedVisible, events, enumSel, writeLog>>
  /\ UNCHANGED <<csvVars, setVars>>

\* line 304
LoopOpen ==
  /\ pc = "loopOpen"
  /\ openCardDialog("click")
  /\ UNCHANGED <<MAX_CARDS, ONLY_FIRST_N, selBtns, probeLog,
                 count, limit, i, rows, clicked, file, fallbackOk, exitCode>>
  /\ UNCHANGED <<enumSel, writeLog>>
  /\ UNCHANGED <<csvVars, setVars>>

\* ClickNthCard with the range test off by one (index > total)
ClickNthCardOffByOne ==
  /\ pc = "click"
  /\ \E sel \in 0..MaxButtons :
       /\ selBtns' = sel
       /\ IF i > sel
          THEN /\ Throw("IndexOutOfRange")
               /\ events' = Append(events, "count")
               /\ UNCHANGED <<clicked, modalVisible>>
          ELSE \/ /\ clicked' = Append(clicked, i)
                  /\ modalVisible' \in BOOLEAN
                  /\ events' = events \o <<"count", "click", "waitHidden">>
                  /\ pc' = "extract" /\ err' = err
               \/ /\ Throw("ClickFailure")
                  /\ events' = Append(events, "count")
                  /\ UNCHANGED <<clicked, modalVisible>>
  /\ UNCHANGED <<MAX_CARDS, ONLY_FIRST_N, probeLog, count, limit, i, rows,
                 file, fallbackOk, exitCode>>
  /\ UNCHANGED <<openedVisible, enumSel, writeLog>>
  /\ UNCHANGED <<csvVars, setVars>>

\* line 305 (clickNthCard, lines 261-270): the "選択" buttons are counted
\* afresh on the reopened surface (the other buttons are not looked at); the
\* wait for the dialog to hide may time out
ClickNthCard ==
  /\ pc = "click"
  /\ \E sel \in 0..MaxButtons :
       /\ selBtns' = sel
       /\ IF i >= sel
          THEN /\ Throw("IndexOutOfRange")
               /\ events' = Append(events, "count")
               /\ UNCHANGED <<clicked, modalVisible>>
          ELSE \/ /\ clicked' = Append(clicked, i)
                  /\ modalVisible' \in BOOLEAN
                  /\ events' = events \o <<"count", "click", "waitHidden">>
                  /\ pc' = "extract" /\ err' = err
               \/ /\ Throw("ClickFailure")
                  /\ events' = Append(events, "count")
                  /\ UNCHANGED <<clicked, modalVisible>>
  /\ UNCHANGED <<MAX_CARDS, ONLY_FIRST_N, probeLog, count, limit, i, rows,
                 file, fallbackOk, exitCode>>
  /\ UNCHANGED <<openedVisible, enumSel, writeLog>>
  /\ UNCHANGED <<csvVars, setVars>>

\* Extract dropping the record of a harvest without fields
ExtractSkipsEmpty ==
  /\ pc = "extract"
  /\ \/ \E region \in Regions :
          /\ rows' = IF extractKeyValuesFromArea(region) = <<>> THEN rows
                     ELSE Append(rows, Rec(i, extractKeyValuesFromArea(region)))
          /\ i' = i + 1
          /\ pc' = LoopTest(i + 1, limit)
          /\ err' = err
     \/ Throw("ExtractionFailure") /\ UNCHANGED <<rows, i>>
  /\ UNCHANGED <<MAX_CARDS, ONLY_FIRST_N, selBtns, modalVisible, probeLog,
                 count, limit, clicked, file, fallbackOk, exitCode>>
  /\ events' = Append(events, "extract")
  /\ UNCHANGED <<openedVisible, enumSel, writeLog>>
  /\ UNCHANGED <<csvVars, setVars>>

\* lines 307-313, the increment and the loop test of line 302
Extract ==
  /\ pc = "extract"
  /\ \/ \E region \in Regions :
          /\ rows' = Append(rows, Rec(i, extractKeyValuesFromArea(region)))
          /\ i' = i + 1
          /\ pc' = LoopTest(i + 1, limit)
          /\ err' = err
     \/ Throw("ExtractionFailure") /\ UNCHANGED <<rows, i>>
  /\ UNCHANGED <<MAX_CARDS, ONLY_FIRST_N, selBtns, modalVisible, probeLog,
                 count, limit, clicked, file, fallbackOk, exitCode>>
  /\ events' = Append(events, "extract")
  /\ UNCHANGED <<openedVisible, enumSel, writeLog>>
  /\ UNCHANGED <<csvVars, setVars>>

\* what a failed fs.writeFile leaves on disk: the file as it was, or the file
\* truncated on opening
FailedWrite == {file, << <<>> >>}

\* lines 318-319
WriteCsvStep ==
  /\ pc = "writeCsv"
  /\ \/ /\ file' = <<writeCsv(rows)>>
        /\ writeLog' = Append(writeLog, "table")
        /\ pc' = "finally" /\ err' = err
     \/ file' \in FailedWrite /\ Throw("WriteFailure") /\ UNCHANGED writeLog
  /\ UNCHANGED <<MAX_CARDS, ONLY_FIRST_N, selBtns, modalVisible, probeLog,
                 count, limit, i, rows, clicked, fallbackOk, exitCode>>
  /\ UNCHANGED <<openedVisible, events, enumSel>>
  /\ UNCHANGED <<csvVars, setVars>>

\* Finally with the exception lost in the finally block
FinallySwallows ==
  /\ pc = "finally"
  /\ pc' = "then"
  /\ UNCHANGED <<MAX_CARDS, ONLY_FIRST_N, selBtns, modalVisible, probeLog,
                 count, limit, i, rows, clicked, err, file, fallbackOk, exitCode>>
  /\ UNCHANGED <<openedVisible, events, enumSel, writeLog>>
  /\ UNCHANGED <<csvVars, setVars>>

\* Finally with a failure of the close calls leaving main as a rejection
FinallyCloseRejects ==
  /\ pc = "finally"
  /\ \/ pc' = (IF err = "none" THEN "then" ELSE "catch") /\ err' = err
     \/ pc' = "catch" /\ err' = "CloseFailure"
  /\ UNCHANGED <<MAX_CARDS, ONLY_FIRST_N, selBtns, modalVisible, probeLog,
                 count, limit, i, rows, clicked, file, fallbackOk, exitCode>>
  /\ UNCHANGED <<openedVisible, events, enumSel, writeLog>>
  /\ UNCHANGED <<csvVars, setVars>>

\* lines 320-323: the failures of the two close calls are swallowed; main
\* then resolves, or rejects with the exception that left the try block
Finally ==
  /\ pc = "finally"
  /\ pc' = IF err = "none" THEN "then" ELSE "catch"
  /\ UNCHANGED <<MAX_CARDS, ONLY_FIRST_N, selBtns, modalVisible, probeLog,
                 count, limit, i, rows, clicked, err, file, fallbackOk, exitCode>>
  /\ UNCHANGED <<openedVisible, events, enumSel, writeLog>>
  /\ UNCHANGED <<csvVars, setVars>>

\* line 328
Then ==
  /\ pc = "then"
  /\ exitCode' = 0
  /\ pc' = "done"
  /\ UNCHANGED <<MAX_CARDS, ONLY_FIRST_N, selBtns, modalVisible, probeLog,
                 count, limit, i, rows, clicked, err, file, fallbackOk>>
  /\ UNCHANGED <<openedVisible, events, enumSel, writeLog>>
  /\ UNCHANGED <<csvVars, setVars>>

\* lines 329-337: the failure of the fallback write is swallowed
Catch ==
  /\ pc = "catch"
  /\ \/ /\ file' = <<FallbackText>> /\ fallbackOk' = TRUE
        /\ writeLog' = Append(writeLog, "fallback")
     \/ file' \in FailedWrite /\ fallbackOk' = FALSE /\ UNCHANGED writeLog
  /\ exitCode' = 1
  /\ pc' = "done"
  /\ UNCHANGED <<MAX_CARDS, ONLY_FIRST_N, selBtns, modalVisible, probeLog,
                 count, limit, i, rows, clicked, err>>
  /\ UNCHANGED <<openedVisible, events, enumSel>>
  /\ UNCHANGED <<csvVars, setVars>>

Next ==
  \/ Launch
  \/ Goto
  \/ ResolveFirstArea
  \/ OpenFirst
  \/ Probe1
  \/ Probe2
  \/ CloseAndLimit
  \/ LoopOpen
  \/ ClickNthCard
  \/ Extract
  \/ WriteCsvStep
  \/ Finally
  \/ Then
  \/ Catch

Spec == Init /\ [][Next]_vars

TypeOK ==
  /\ pc \in {"launch", "goto", "resolve", "open", "probe1", "probe2", "close",
             "loopOpen", "click", "extract", "writeCsv", "finally", "then",
             "catch", "done"}
  /\ exitCode \in {-1, 0, 1}
  /\ Len(file) <= 1
  /\ Len(probeLog) <= 2
  /\ i <= limit

-----------------------------------------------------------------------------
(* writeCsv on its own: every list of up to MaxRows records of up to        *)
(* MaxFields fields over CsvKeys                                           *)

CsvKeys == {K("member"), K("costAP"), K("A"), K("B"), K("C")}
CsvVals == {<<>>, <<"x">>, <<"x", COMMA, QUOTE, LF, "y">>}

\* all sequences over S of length at most n
SeqsUpTo(S, n) == UNION {[1..m -> S] : m \in 0..n}

CsvInputs ==
  { [n \in 1..Len(ks) |-> [k \in ks[n] |-> StrV(v)]] :
      ks \in SeqsUpTo({S \in SUBSET CsvKeys : Cardinality(S) <= MaxFields}, MaxRows),
      v \in CsvVals }

InitCsv ==
  /\ RunIdle /\ FieldIdle /\ SetIdle
  /\ csvIn \in CsvInputs
  /\ csvOut = <<>>

\* a call of writeCsv, lines 49-81
WriteCsvCall ==
  /\ pc = "idle" /\ epc = "idle" /\ fldIn = <<>>
  /\ csvOut = <<>>
  /\ csvOut' = <<writeCsv(csvIn)>>
  /\ UNCHANGED <<runVars, setVars, csvIn, fldIn, fldOut>>

NextCsv == WriteCsvCall

SpecCsv == InitCsv /\ [][NextCsv]_vars

-----------------------------------------------------------------------------
(* toCsvField on its own: every string of up to MaxStrLen characters       *)

FieldAlphabet == {"x", COMMA, QUOTE, LF, CR}

InitField ==
  /\ RunIdle /\ CsvIdle /\ SetIdle
  /\ fldIn \in {<<s>> : s \in SeqsUpTo(FieldAlphabet, MaxStrLen)}
  /\ fldOut = <<>>

\* a call of toCsvField, lines 43-47
ToCsvFieldCall ==
  /\ pc = "idle" /\ epc = "idle" /\ fldIn # <<>>
  /\ fldOut = <<>>
  /\ fldOut' = <<toCsvField(StrV(fldIn[1]))>>
  /\ UNCHANGED <<runVars, setVars, csvIn, csvOut, fldIn>>

NextField == ToCsvFieldCall

SpecField == InitField /\ [][NextField]_vars

-----------------------------------------------------------------------------
(* extractKeyValuesFromArea on its own, one call of set at a time: every   *)
(* area of up to MaxEntries elements                                       *)

RawKeys ==
  {<<>>, <<"A">>, <<NBSP, "A", SP>>, <<"A", COLON>>, <<"A", COLON, COLON>>, <<FWCOLON>>}
RawVals == {<<>>, <<"x">>, <<"y">>}
Kinds == <<"dl", "table", "label", "strong">>
KindSet == {Kinds[n] : n \in 1..Len(Kinds)}

\* an element of the area: its kind, its label text and, when it has one,
\* the text of its value part
Entries == [kind : KindSet, k : RawKeys, v : {<<>>} \cup {<<v>> : v \in RawVals}]

OfKind(es, kind) == SelectSeq(es, LAMBDA e : e.kind = kind)

\* the area holding the elements es, in document order within each kind
RegionOf(es) ==
  [ dl |-> [n \in 1..Len(OfKind(es, "dl")) |->
              [dt |-> OfKind(es, "dl")[n].k, dd |-> OfKind(es, "dl")[n].v]],
    table |-> [n \in 1..Len(OfKind(es, "table")) |->
                 <<OfKind(es, "table")[n].k>> \o OfKind(es, "table")[n].v],
    label |-> [n \in 1..Len(OfKind(es, "label")) |->
                 [key |-> OfKind(es, "label")[n].k, field |-> OfKind(es, "label")[n].v]],
    strong |-> [n \in 1..Len(OfKind(es, "strong")) |->
                  [text |-> OfKind(es, "strong")[n].k,
                   val |-> IF OfKind(es, "strong")[n].v = <<>> THEN <<>>
                           ELSE OfKind(es, "strong")[n].v[1]]] ]

KindRank(kind) == CHOOSE n \in 1..Len(Kinds) : Kinds[n] = kind

\* the element lists tried: grouped by kind, so that each denotes one area
EntrySeqs ==
  { es \in SeqsUpTo(Entries, MaxEntries) :
      \A n \in 1..(Len(es) - 1) : KindRank(es[n].kind) <= KindRank(es[n + 1].kind) }

InitExtract ==
  /\ RunIdle /\ CsvIdle /\ FieldIdle
  /\ epc = "set"
  /\ calls \in {SetCalls(RegionOf(es)) : es \in EntrySeqs}
  /\ kvs = <<>>
  /\ lastCall = <<>>

\* the next call of set, lines 123-129, made by the strategies
SetCall ==
  /\ epc = "set"
  /\ calls # <<>>
  /\ kvs' = set(kvs, Head(calls).k, Head(calls).v)
  /\ lastCall' = <<Head(calls)>>
  /\ calls' = Tail(calls)
  /\ UNCHANGED <<runVars, csvVars, epc>>

\* lines 205-213: the key normalisation after the last strategy
NormalizeStep ==
  /\ epc = "set"
  /\ calls = <<>>
  /\ kvs' = NormalizeKeys(kvs, Keys(kvs))
  /\ epc' = "done"
  /\ UNCHANGED <<runVars, csvVars, calls, lastCall>>

NextExtract ==
  \/ SetCall
  \/ NormalizeStep

SpecExtract == InitExtract /\ [][NextExtract]_vars

-----------------------------------------------------------------------------
(* Claims about the run *)

\* the run failed: an exception left main
Failed == pc = "done" /\ err # "none"
\* the run completed: main resolved
Completed == pc = "done" /\ err = "none"

C2_EmptyRunWritesFallbackHeader ==
  Completed /\ rows = <<>> => file = <<FallbackText>>

PerCandidateFailure ==
  \/ err \in {"ExtractionFailure", "ClickFailure"}
  \/ err = "SurfaceTimeout" /\ probeLog # <<>>

\* C4: a failure while one candidate is processed (other than
\* IndexOutOfRange) never aborts the run: the run does not take the failure
\* path and does not exit with a non-zero code.
C4_CandidateFailureIsSkipped ==
  PerCandidateFailure => pc \notin {"finally", "catch"} /\ exitCode # 1

\* record n is the record of a harvest without fields
EmptyHarvest(n) == DOMAIN rows[n] = {K("index"), K("cardName")}

\* C5, as stated: after N processed candidates the table has N data rows and
\* the row of a candidate whose harvest was empty has only empty fields.
C5_AsStated ==
  Completed =>
    /\ Len(rows) = limit /\ Len(Lines(rows)) = 1 + limit
    /\ \A n \in 1..Len(rows) :
         EmptyHarvest(n) =>
           LET row == RowFields(Headers(rows), rows[n])
           IN \A c \in 1..Len(row) : row[c] = <<>>

\* C5, amended: after N processed candidates the table has N data rows (one
\* per clicked candidate), and the row of a candidate whose harvest was empty
\* has its position in the index column and only empty fields elsewhere.
C5_EmptyHarvestKept ==
  Completed =>
    LET H == Headers(rows)
    IN /\ Len(rows) = limit /\ Len(clicked) = limit
       /\ Len(Lines(rows)) = 1 + limit
       /\ \A n \in 1..Len(rows) :
            EmptyHarvest(n) =>
              LET row == RowFields(H, rows[n])
              IN /\ Len(row) = Len(H)
                 /\ \A c \in 1..Len(row) :
                      row[c] = IF H[c] = K("index") THEN <<ToString(n)>> ELSE <<>>

\* C5 witness: three candidates, the second with an empty harvest, the
\* others with fields
C5_Witness ==
  /\ Completed /\ exitCode = 0 /\ Len(rows) = 3
  /\ EmptyHarvest(2) /\ ~EmptyHarvest(1) /\ ~EmptyHarvest(3)
  /\ file = <<writeCsv(rows)>>

\* the enumeration of lines 292-297 is over
Enumerated ==
  probeLog # <<>> /\ pc \notin {"probe1", "probe2"}

\* C6: the count is retried exactly once and only when the first probe
\* reports zero: a non-zero first probe is final, a zero first probe is
\* followed by exactly one more, whose result is final; there is never a
\* third probe.
C6_RetryOnceOnZero ==
  /\ Len(probeLog) <= 2
  /\ pc = "probe2" => probeLog = <<0>>
  /\ Enumerated =>
       /\ count = probeLog[Len(probeLog)]
       /\ probeLog[1] # 0 => Len(probeLog) = 1
       /\ probeLog[1] = 0 => Len(probeLog) = 2

\* C6 witness: 0 on the first probe and 3 on the retried probe give 3
C6_Witness == Enumerated /\ probeLog = <<0, 3>> /\ count = 3

-----------------------------------------------------------------------------
(* Reading CSV text back *)

RECURSIVE SplitOutsideQuotes(_, _, _, _, _)
\* the pieces of text t between the separators sep that stand outside quotes
SplitOutsideQuotes(t, sep, inq, cur, out) ==
  IF t = <<>> THEN Append(out, cur)
  ELSE IF Head(t) = QUOTE
       THEN SplitOutsideQuotes(Tail(t), sep, ~inq, Append(cur, QUOTE), out)
  ELSE IF Head(t) = sep /\ ~inq
       THEN SplitOutsideQuotes(Tail(t), sep, inq, <<>>, Append(out, cur))
  ELSE SplitOutsideQuotes(Tail(t), sep, inq, Append(cur, Head(t)), out)

\* the lines of a text, and the raw fields of a line
TextLines(t) == SplitOutsideQuotes(t, LF, FALSE, <<>>, <<>>)
LineFields(l) == SplitOutsideQuotes(l, COMMA, FALSE, <<>>, <<>>)

RECURSIVE ParseCsv(_, _, _, _, _)
\* A CSV reader after RFC 4180 that, as the common readers do, ends a record
\* at LF, CR or CR LF outside quotes.  st is "start" at the start of a field,
\* "plain" inside an unquoted field, "quoted" inside a quoted field and
\* "closed" after a quote inside a quoted field.
ParseCsv(t, st, cur, row, out) ==
  IF t = <<>>
  THEN IF st = "start" /\ row = <<>> THEN out ELSE Append(out, Append(row, cur))
  ELSE LET c == Head(t)
           r == Tail(t)
       IN IF st = "quoted"
          THEN IF c = QUOTE THEN ParseCsv(r, "closed", cur, row, out)
               ELSE ParseCsv(r, "quoted", Append(cur, c), row, out)
          ELSE IF c = QUOTE
               THEN IF st = "start" THEN ParseCsv(r, "quoted", cur, row, out)
                    ELSE IF st = "closed" THEN ParseCsv(r, "quoted", Append(cur, c), row, out)
                    ELSE ParseCsv(r, "plain", Append(cur, c), row, out)
          ELSE IF c = COMMA
               THEN ParseCsv(r, "start", <<>>, Append(row, cur), out)
          ELSE IF c = CR /\ r # <<>> /\ Head(r) = LF
               THEN ParseCsv(r, st, cur, row, out)
          ELSE IF c \in {LF, CR}
               THEN ParseCsv(r, "start", <<>>, <<>>, Append(out, Append(row, cur)))
          ELSE ParseCsv(r, "plain", Append(cur, c), row, out)

ReadCsv(t) == ParseCsv(t, "start", <<>>, <<>>, <<>>)

-----------------------------------------------------------------------------
(* Claims about writeCsv and toCsvField *)

\* the header of a written text: the fields of its first line
WrittenHeader(t) == IF TextLines(t)[1] = <<>> THEN <<>> ELSE LineFields(TextLines(t)[1])

PreferIndex(k) == CHOOSE n \in 1..Len(prefer) : prefer[n] = k

\* C7: the header written by writeCsv holds exactly the union of the
\* records' keys, each once: first the members of the preferred list that
\* occur, in the list's order, then the other keys in sorted order.
C7_HeaderIsOrderedUnion ==
  csvOut # <<>> =>
    LET H == WrittenHeader(csvOut[1])
    IN /\ {H[n] : n \in 1..Len(H)} = KeySet(csvIn)
       /\ Len(H) = Cardinality(KeySet(csvIn))
       /\ \A a, b \in 1..Len(H) :
            a < b =>
              /\ PreferIncludes(H[b]) =>
                   PreferIncludes(H[a]) /\ PreferIndex(H[a]) < PreferIndex(H[b])
              /\ ~PreferIncludes(H[a]) /\ ~PreferIncludes(H[b]) =>
                   localeCompare(H[a], H[b]) < 0

\* C7 witness: records {A, B} and {A, C} give the header A, B, C
C7_Witness ==
  /\ csvOut # <<>> /\ Len(csvIn) = 2
  /\ DOMAIN csvIn[1] = {K("A"), K("B")} /\ DOMAIN csvIn[2] = {K("A"), K("C")}
  /\ WrittenHeader(csvOut[1]) = <<K("A"), K("B"), K("C")>>

\* C8: the text written by writeCsv is the header line followed by one line
\* per record, in record order; each line has as many fields as the header
\* line, and under each header column stands the record's field, escaped,
\* or nothing when the record lacks the field.
C8_OneRowPerRecord ==
  csvOut # <<>> =>
    LET L == TextLines(csvOut[1])
        H == WrittenHeader(csvOut[1])
        width == Len(LineFields(L[1]))
    IN /\ Len(L) = 1 + Len(csvIn)
       /\ \A n \in 1..Len(csvIn) :
            LET F == LineFields(L[n + 1])
            IN /\ Len(F) = width
               /\ \A c \in 1..Len(H) :
                    F[c] = IF H[c] \in DOMAIN csvIn[n] THEN toCsvField(csvIn[n][H[c]])
                           ELSE <<>>

\* C8 witness: two records, the second lacking a field of the first, with
\* values that need quoting
C8_Witness ==
  /\ csvOut # <<>> /\ Len(csvIn) = 2
  /\ DOMAIN csvIn[1] = {K("member"), K("A")} /\ DOMAIN csvIn[2] = {K("member")}
  /\ csvIn[1][K("A")] = StrV(<<"x", COMMA, QUOTE, LF, "y">>)
  /\ Len(TextLines(csvOut[1])) = 3

\* a table with the string s in its first and in its last field
TableWith(s) ==
  << [k \in {K("A"), K("B")} |-> IF k = K("A") THEN StrV(s) ELSE StrV(<<"x">>)],
     [k \in {K("A"), K("B")} |-> IF k = K("A") THEN StrV(<<"x">>) ELSE StrV(s)] >>

IsQuoted(f) == Len(f) >= 2 /\ f[1] = QUOTE /\ f[Len(f)] = QUOTE

\* C9: for every string, toCsvField quotes it (doubling its quotes) exactly
\* when it holds a comma, a quote or a line break, and a table written with
\* the string in it, read back by a CSV reader, has the same rows and fields,
\* with the string unchanged.
C9_CsvRoundTrip ==
  fldOut # <<>> =>
    LET s == fldIn[1]
    IN /\ IsQuoted(fldOut[1]) <=> \E n \in 1..Len(s) : s[n] \in {COMMA, QUOTE, LF, CR}
       /\ ReadCsv(fldOut[1] \o <<COMMA, "x">>) = << <<s, <<"x">>>> >>
       /\ ReadCsv(writeCsv(TableWith(s))) =
            << <<K("A"), K("B")>>, <<s, <<"x">>>>, <<<<"x">>, s>> >>

-----------------------------------------------------------------------------
(* Claims about extractKeyValuesFromArea *)

\* C10: at every call set(k, v) of the strategies: a key that holds a
\* non-empty value keeps it; the stored value changes only for the
\* normalized key of the call, only when that key was absent or held the
\* empty string, and then to the normalized value of the call; a call whose
\* normalized key is empty changes nothing.
C10_FirstWriteWins ==
  [][ (epc = "set" /\ calls # <<>>) =>
        LET key == norm(Head(calls).k)
            val == norm(Head(calls).v)
        IN /\ \A n \in 1..Len(kvs) :
                kvs[n].v # <<>> => Has(kvs', kvs[n].k) /\ Lookup(kvs', kvs[n].k) = kvs[n].v
           /\ \A n \in 1..Len(kvs') :
                \/ Has(kvs, kvs'[n].k) /\ Lookup(kvs, kvs'[n].k) = kvs'[n].v
                \/ /\ kvs'[n].k = key /\ kvs'[n].v = val
                   /\ ~Has(kvs, key) \/ Lookup(kvs, key) = <<>>
           /\ Len(kvs') >= Len(kvs)
           /\ key = <<>> => kvs' = kvs
           /\ key # <<>> /\ (~Has(kvs, key) \/ Lookup(kvs, key) = <<>>) =>
                Has(kvs', key) /\ Lookup(kvs', key) = val
           /\ \A n \in 1..Len(kvs') : kvs'[n].k # <<>> ]_vars

\* C10 witness: a later call with the key of a stored non-empty value and
\* another value has been issued, and the first value is still stored
C10_Witness ==
  /\ epc = "set" /\ lastCall # <<>>
  /\ Has(kvs, norm(lastCall[1].k))
  /\ norm(lastCall[1].v) # <<>>
  /\ Lookup(kvs, norm(lastCall[1].k)) # <<>>
  /\ Lookup(kvs, norm(lastCall[1].k)) # norm(lastCall[1].v)

-----------------------------------------------------------------------------
(* norm on its own: the two calls of set that store a group and a member   *)
(* value, for every raw group text of up to MaxStrLen characters, then the *)
(* key normalisation and the assembly of the record                        *)

NormAlphabet == {"x", SP, NBSP, LF}
NormMembers == {<<>>, <<"x">>, <<SP, "x", NBSP>>}

InitNorm ==
  /\ RunIdle /\ CsvIdle /\ FieldIdle
  /\ epc = "set"
  /\ calls \in { <<Call(K("series"), s), Call(K("member"), t)>> :
                   s \in SeqsUpTo(NormAlphabet, MaxStrLen), t \in NormMembers }
  /\ kvs = <<>>
  /\ lastCall = <<>>

SpecNorm == InitNorm /\ [][NextExtract]_vars

\* s is in whitespace-normal form: no non-breaking space or line break, no
\* two spaces in a row, no space at either end
Normalized(s) ==
  /\ \A n \in 1..Len(s) : s[n] \notin {NBSP, LF, CR}
  /\ \A n \in 1..(Len(s) - 1) : ~(s[n] = SP /\ s[n + 1] = SP)
  /\ s # <<>> => s[1] # SP /\ s[Len(s)] # SP

\* C11: every stored value, and every field value of the record assembled
\* from the harvest (the composite name included), is in whitespace-normal
\* form and equals its own norm; norm(norm(s)) = norm(s) for every raw string
\* passed to set.
C11_ValuesNormalized ==
  /\ \A n \in 1..Len(kvs) : Normalized(kvs[n].v) /\ norm(kvs[n].v) = kvs[n].v
  /\ \A n \in 1..Len(calls) :
       /\ norm(norm(calls[n].v)) = norm(calls[n].v)
       /\ Normalized(norm(calls[n].v))
  /\ epc = "done" =>
       LET rec == Rec(0, kvs)
       IN \A k \in DOMAIN rec :
            Normalized(String(rec[k])) /\ norm(String(rec[k])) = String(rec[k])

\* C11 witness: a raw value that was not in normal form has been stored, and
\* the record's composite name is built from a group value with an inner
\* space
C11_Witness ==
  /\ epc = "done" /\ lastCall # <<>>
  /\ ~Normalized(lastCall[1].v)
  /\ Rec(0, kvs)[K("cardName")] = StrV(<<"[", "x", SP, "x", "]", SP, "x">>)

-----------------------------------------------------------------------------
(* Claims about the selection loop *)

\* C12: the number of candidates selected in a run never exceeds the observed
\* candidate count and never exceeds MAX_CARDS, whatever ONLY_FIRST_N is; the
\* positions selected are 0, 1, 2, ... in this order.
C12_SelectedWithinLimits ==
  /\ Len(clicked) <= count
  /\ Len(clicked) <= MAX_CARDS
  /\ \A n \in 1..Len(clicked) : clicked[n] = n - 1

\* C13: a call of openCardDialog that finds the dialog visible does not click
\* the anchor control and does not fail.
C13_AnchorOnlyWhenHidden ==
  openedVisible =>
    /\ \A n \in 1..Len(events) : events[n] # "anchorClick"
    /\ err # "SurfaceTimeout"

\* C14: whenever the extraction has been invoked for a candidate, the events
\* since the dialog was opened for it are, in order: the count of the
\* buttons, the click, the wait for the dialog to hide, the settle delay, the
\* extraction.
C14_SettleBeforeExtract ==
  (\E n \in 1..Len(events) : events[n] = "extract") =>
    events = <<"anchorClick", "count", "click", "waitHidden", "settle", "extract">>

\* the value of field k of record r, '' when the record lacks it
FieldOrEmpty(r, k) == IF k \in DOMAIN r THEN String(r[k]) ELSE <<>>

\* "[group] member" when the group is non-empty (the member part left out
\* when it is empty), the member alone otherwise
Composite(group, member) ==
  IF group = <<>> THEN member
  ELSE IF member = <<>> THEN <<"[">> \o group \o <<"]">>
  ELSE <<"[">> \o group \o <<"]", SP>> \o member

\* C16: in every record the composite name is built from the record's group
\* and member values, whatever other keys the harvest held, and index and
\* composite name lead the header of the table.
C16_CompositeName ==
  /\ \A n \in 1..Len(rows) :
       rows[n][K("cardName")] =
         StrV(Composite(FieldOrEmpty(rows[n], K("series")),
                        FieldOrEmpty(rows[n], K("member"))))
  /\ rows # <<>> => SubSeq(Headers(rows), 1, 2) = <<K("index"), K("cardName")>>

\* C17: the k-th record carries index = k, the candidates are selected in
\* position order, and position i+1 is selected only after the record of
\* position i has been appended.
C17_IndexIsPosition ==
  /\ \A n \in 1..Len(rows) : rows[n][K("index")] = NumV(n)
  /\ \A n \in 1..Len(clicked) : clicked[n] = n - 1
  /\ Len(rows) <= Len(clicked) /\ Len(clicked) <= Len(rows) + 1

\* C18: when the enumeration reported a count above zero and the reopened
\* dialog shows as many "選択" buttons as it did at the enumeration, the
\* selection of a position below the count does not raise IndexOutOfRange.
C18_EnumerationAgreesWithSelection ==
  ~(err = "IndexOutOfRange" /\ count > 0 /\ selBtns = enumSel /\ i < count)

\* the table has been written
TableWritten == \E n \in 1..Len(writeLog) : writeLog[n] = "table"

\* C20: at most one write of the artifact completes in a run; the table is
\* written only after the loop has run to its limit without an exception and
\* stays on disk from then on; the fallback header is written only by a run
\* that exits with 1; the exit code is 0 exactly when the run has ended with
\* the table written.
C20_OneWriteMatchingExit ==
  /\ Len(writeLog) <= 1
  /\ TableWritten =>
       /\ pc \in {"finally", "then", "done"} /\ err = "none"
       /\ i = limit /\ Len(rows) = limit /\ Len(clicked) = limit
       /\ file = <<writeCsv(rows)>>
  /\ exitCode = 0 <=> (pc = "done" /\ writeLog = <<"table">>)
  /\ exitCode = 1 <=> (pc = "done" /\ ~TableWritten)
  /\ writeLog = <<"fallback">> => exitCode = 1 /\ file = <<FallbackText>>

\* C20 witness: a run that selected candidates has written the table, closed
\* the browser and exited with 0
C20_Witness ==
  /\ pc = "done" /\ exitCode = 0 /\ rows # <<>>
  /\ writeLog = <<"table">> /\ file = <<writeCsv(rows)>>

-----------------------------------------------------------------------------
(* Claims about the key normalisation of extractKeyValuesFromArea *)

\* C15: at the key normalisation, for every key K ending in a colon: K is
\* removed; the colon-free key exists afterwards; it holds K's value when it
\* did not exist before, its own value when that was non-empty, and K's value
\* when its own value was empty.
C15_ColonKeysMerged ==
  [][ (epc = "set" /\ calls = <<>>) =>
        \A n \in 1..Len(kvs) :
          LET k == kvs[n].k
              nk == StripColon(k)
          IN nk # k =>
               /\ ~Has(kvs', k)
               /\ Has(kvs', nk)
               /\ Lookup(kvs', nk) =
                    IF ~Has(kvs, nk) THEN kvs[n].v
                    ELSE IF Lookup(kvs, nk) # <<>> THEN Lookup(kvs, nk)
                    ELSE kvs[n].v ]_vars

\* C19: every key of the returned record is non-empty and does not end in a
\* half- or full-width colon.
C19_KeysWellFormed ==
  epc = "done" =>
    \A n \in 1..Len(kvs) : kvs[n].k # <<>> /\ ~EndsWithColon(kvs[n].k)

====
